---- MODULE Spec2Model ----
(***************************************************************************)
(* A model of analyzetestgroups.py (Kodsport/testdata_tools): main() reads *)
(* verifyproblem's log line by line (Problem.__init__), sorts the          *)
(* committed submissions, prints the table (Problem.print_table), prints   *)
(* the time limits and checks that the secret groups are distinguished     *)
(* (Problem.check_distinguished).                                          *)
(*                                                                         *)
(* Representation.  Submission objects live in `heap` and are referred to  *)
(* by their index (object identity); `sub` and the entries of              *)
(* `submissions` are such references, 0 standing for None.  Group keys are *)
(* numbers: 0 is the key "sample", n > 0 is the key str(n).  Times are in  *)
(* hundredths of a second.  Python's None is the number -1 wherever a      *)
(* number may be None.  An uncaught exception ends the run in pc =         *)
(* "crashed", sys.exit in pc = "exit".                                     *)
(*                                                                         *)
(* grader.py is a separate program, run by the judge on the verdicts of a  *)
(* submission; its state is the record `grader`.  Scores are in            *)
(* thousandths, the total it prints in hundredths.                         *)
(***************************************************************************)
EXTENDS Integers, Sequences, FiniteSets

\* ------------------------------------------------------------- bounds
MaxLines == 5
MaxSubs == 2
MaxGroup == 2
MaxCases == 2
MaxReportSubs == 2
MaxGroupLines == 4
MaxGraderCases == 2

\* ------------------------------------------------------------- values
None == -1
SampleKey == 0
Stem == "arithmetic"
Grades == {"AC", "WA"}
CaseTimes == {1, 5}
EndTokens == {<<None, 1>>, <<100, 1>>, <<100, 5>>}
Limits == {<<1, 2>>, <<2, 4>>}
Names == {"a.cpp"}
Types == {"AC", "WA", "RTE"}

\* Submission.subdir: the categories that have a directory name.
subdir == {"AC", "PAC", "WA", "TLE"}

\* The members of Pattern, in the order of the enumeration.
Pattern ==
  << "END_SUBMISSION", "FIRST_LINE", "TESTGROUP_GRADE", "START_SUBMISSION",
     "START_TESTGROUP", "AC_TC_RESULT", "TIMELIMIT" >>

\* ------------------------------------------------------------- helpers
Range(s) == {s[i] : i \in 1 .. Len(s)}

RECURSIVE SeqMax(_)
\* max(tc_times) of a non-empty list.
SeqMax(s) ==
  IF Len(s) = 1 THEN s[1]
  ELSE LET m == SeqMax(Tail(s)) IN IF s[1] >= m THEN s[1] ELSE m

\* max(a, b) of two integers.
IntMax(a, b) == IF a >= b THEN a ELSE b

\* A Verdict that keeps the time whatever the grade.
VerdictKeepsTime(grade, time) == [grade |-> grade, time |-> time]

\* Verdict.__init__: the time is kept for AC grades only.
Verdict(grade, time) ==
  [grade |-> grade, time |-> IF grade = "AC" THEN time ELSE None]

\* OrderedDict: a sequence of [key, val] entries with distinct keys.
Keys(od) == [i \in 1 .. Len(od) |-> od[i].key]
HasKey(od, k) == \E i \in 1 .. Len(od) : od[i].key = k
Get(od, k) == od[CHOOSE i \in 1 .. Len(od) : od[i].key = k].val

\* A mapping that appends an entry on every assignment.
OrderedDictAppend(od, k, v) == Append(od, [key |-> k, val |-> v])

\* od[k] = v: an existing key keeps its position and gets the new value, a
\* new key is appended.
OrderedDictSet(od, k, v) ==
  IF HasKey(od, k)
  THEN [i \in 1 .. Len(od) |-> IF od[i].key = k THEN [key |-> k, val |-> v] ELSE od[i]]
  ELSE Append(od, [key |-> k, val |-> v])

\* ------------------------------------------------------------- lines
\* A line is what the regular expressions see of it: the set of patterns
\* that match it and the fields the matches extract.
NoLine == [pats |-> {}]
FirstLines ==
  {[pats |-> {"FIRST_LINE"}, problemname |-> n] : n \in {Stem, "other"}}
StartSubmissionLines ==
  {[pats |-> {"START_SUBMISSION"}, type |-> t, name |-> n] : t \in Types, n \in Names}
StartTestgroupLines == {[pats |-> {"START_TESTGROUP"}]}
AcTcResultLines ==
  {[pats |-> {"AC_TC_RESULT"}, time |-> t, case |-> "1.in"] : t \in CaseTimes}
\* The number of a secret group may be missing from the line.
TestgroupGradeLines ==
  {[pats |-> {"TESTGROUP_GRADE"}, type |-> "sample", number |-> None, grade |-> g] :
     g \in Grades}
  \cup
  {[pats |-> {"TESTGROUP_GRADE"}, type |-> "secret/group", number |-> n, grade |-> g] :
     n \in 1 .. MaxGroup, g \in Grades}
  \cup
  {[pats |-> {"TESTGROUP_GRADE"}, type |-> "secret/group", number |-> None, grade |-> "AC"]}
EndSubmissionLines ==
  {[pats |-> {"END_SUBMISSION"}, points |-> e[1], maxtime |-> e[2]] : e \in EndTokens}
TimelimitLines ==
  {[pats |-> {"TIMELIMIT"}, limit |-> l[1], safety |-> l[2]] : l \in Limits}

\* Problem._find_matching_pattern: the first pattern of the enumeration that
\* matches, "None" if none does.
_find_matching_pattern(line) ==
  IF \E i \in 1 .. Len(Pattern) : Pattern[i] \in line.pats
  THEN Pattern[CHOOSE i \in 1 .. Len(Pattern) :
                 /\ Pattern[i] \in line.pats
                 /\ \A j \in 1 .. (i - 1) : Pattern[j] \notin line.pats]
  ELSE "None"

\* ------------------------------------------------------------- source trees
\* What Submission._get_expected_grades finds at the submission's path: a
\* file whose first annotation line lists `grades` (<<>> if no line
\* matches), or a directory of such files.
AnnotationLists == {<<>>, <<"WA">>, <<"AC", "WA">>}
Files == {[file |-> TRUE, grades |-> g] : g \in AnnotationLists}
Dirs ==
  {[file |-> FALSE, children |-> c] :
     c \in {<<>>, <<[file |-> TRUE, grades |-> <<"AC", "WA">>]>>,
            <<[file |-> TRUE, grades |-> <<>>], [file |-> TRUE, grades |-> <<"AC", "WA">>]>>}}
Paths == Files \cup Dirs

\* Submission._get_expected_grades: the grade list of a file; for a
\* directory the result of its first child (the result of a child is never
\* None, so the loop returns in its first iteration), {} if it has none.
\* The dict {str(i + 1): g} is the sequence of its values.
_get_expected_grades(path) ==
  IF path.file THEN path.grades
  ELSE IF Len(path.children) > 0 THEN path.children[1].grades
  ELSE <<>>

\* ------------------------------------------------------------- state
VARIABLES
  pc,            \* where main() is
  exc,           \* the uncaught exception, <<name, function>>, once crashed
  unbound,       \* the locals of Problem.__init__ not yet assigned
  lineno,
  problemname,
  sub,           \* the current Submission (a heap reference), 0 for None
  tc_times,
  max_group_id,
  heap,          \* every Submission object created so far
  regraded,      \* history: per object, the keys graded again before its first commit
  seen,          \* history: the case times read since the last test-group-started line
  declared,      \* history: the pair of the last time-limits-declared line, <<>> if none
  submissions,   \* Problem.submissions: references into heap
  timelimits,    \* Problem.timelimits, <<>> while the attribute is not set
  groups,        \* Problem.groups
  log,           \* the calls of logging.critical / error / warning / info
  stdout,        \* the report: table, time limits, confirmation
  grader         \* grader.py: its inputs, locals and output

vars ==
  << pc, exc, unbound, lineno, problemname, sub, tc_times, max_group_id,
     heap, regraded, seen, declared, submissions, timelimits, groups, log, stdout,
     grader >>

\* grader.py is not running.
NotRunning == [pc |-> "none"]

\* The state as one record, so that a handler is a function of the state.
Cur ==
  [pc |-> pc, exc |-> exc, unbound |-> unbound, lineno |-> lineno,
   problemname |-> problemname, sub |-> sub, tc_times |-> tc_times,
   max_group_id |-> max_group_id, heap |-> heap, regraded |-> regraded,
   seen |-> seen, declared |-> declared,
   submissions |-> submissions, timelimits |-> timelimits, groups |-> groups,
   log |-> log, stdout |-> stdout]

\* The state after main() has called logging.basicConfig.
Start ==
  [pc |-> "start", exc |-> <<>>, unbound |-> {"problemname", "tc_times"}, lineno |-> 0,
   problemname |-> "", sub |-> 0, tc_times |-> <<>>,
   max_group_id |-> 0, heap |-> <<>>, regraded |-> <<>>, seen |-> <<>>, declared |-> <<>>,
   submissions |-> <<>>, timelimits |-> <<>>, groups |-> <<>>,
   log |-> <<>>, stdout |-> <<>>]

\* The variables hold the state st.
Holds(st) ==
  /\ pc = st.pc
  /\ exc = st.exc
  /\ unbound = st.unbound
  /\ lineno = st.lineno
  /\ problemname = st.problemname
  /\ sub = st.sub
  /\ tc_times = st.tc_times
  /\ max_group_id = st.max_group_id
  /\ heap = st.heap
  /\ regraded = st.regraded
  /\ seen = st.seen
  /\ declared = st.declared
  /\ submissions = st.submissions
  /\ timelimits = st.timelimits
  /\ groups = st.groups
  /\ log = st.log
  /\ stdout = st.stdout

\* The step's next state is st.
Becomes(st) ==
  /\ pc' = st.pc
  /\ exc' = st.exc
  /\ unbound' = st.unbound
  /\ lineno' = st.lineno
  /\ problemname' = st.problemname
  /\ sub' = st.sub
  /\ tc_times' = st.tc_times
  /\ max_group_id' = st.max_group_id
  /\ heap' = st.heap
  /\ regraded' = st.regraded
  /\ seen' = st.seen
  /\ declared' = st.declared
  /\ submissions' = st.submissions
  /\ timelimits' = st.timelimits
  /\ groups' = st.groups
  /\ log' = st.log
  /\ stdout' = st.stdout
  /\ grader' = grader

\* One logging call: level, message and the message's arguments (0 or ""
\* for those the message does not have).
LogEntry(level, msg, s, i, j, actual, expected) ==
  [level |-> level, msg |-> msg, sub |-> s, i |-> i, j |-> j,
   actual |-> actual, expected |-> expected]

\* An uncaught exception raised in function `where`: the run ends there.
Raise(st, name, where) == [st EXCEPT !.pc = "crashed", !.exc = <<name, where>>]

\* ------------------------------------------------------------- the line loop
\* lineno += 1, at the head of the loop body.
CountLine(st) == [st EXCEPT !.lineno = @ + 1]

\* Lines 285-293.  The progress output is not part of `stdout`.
OnFirstLine(st, line) ==
  LET s1 == [st EXCEPT !.problemname = line.problemname,
                       !.unbound = @ \ {"problemname"}]
  IN IF line.problemname # Stem THEN [s1 EXCEPT !.pc = "exit"] ELSE s1

\* Submission.__init__ for a submission whose source is at `path`.
NewSubmission(line, path) ==
  [name |-> line.name, expected_total_grade |-> line.type, verdict |-> <<>>,
   maxtime |-> None, points |-> None, _expected_grades |-> _get_expected_grades(path)]

\* Lines 294-295 and Submission.__init__: the category must have a
\* directory name; an AC submission with an annotation is warned about.
OnStartSubmission(st, line, path) ==
  IF line.type \notin subdir
  THEN Raise(st, "KeyError", "Submission.__init__")
  ELSE LET new == Len(st.heap) + 1
       IN [st EXCEPT
             !.heap = Append(@, NewSubmission(line, path)),
             !.regraded = Append(@, {}),
             !.sub = new,
             !.log = IF Len(_get_expected_grades(path)) > 0 /\ line.type = "AC"
                     THEN Append(@, LogEntry("WARNING", "AC submission contains EXPECTED_GRADES",
                                             new, 0, 0, "", ""))
                     ELSE @]

\* Lines 296-297.
OnStartTestgroup(st, line) ==
  [st EXCEPT !.tc_times = <<>>, !.unbound = @ \ {"tc_times"}]

\* Lines 298-301: the print reads problemname, the append reads tc_times.
\* tc_id is read by the progress output only.
OnAcTcResult(st, line) ==
  IF st.unbound # {}
  THEN Raise(st, "UnboundLocalError", "Problem.__init__")
  ELSE [st EXCEPT !.tc_times = Append(@, line.time)]

\* The key a group-graded line stores its Verdict under.
GroupKey(line) == IF line.type = "sample" THEN SampleKey ELSE line.number

\* The condition without the test of line 307 for the sample group.
RequiresTestCaseAnyGroup(line, times) == line.grade = "AC" /\ Len(times) = 0

\* The condition of lines 307-308: an AC grade of a secret group without
\* any test case time.
RequiresTestCase(line, times) ==
  line.type # "sample" /\ line.grade = "AC" /\ Len(times) = 0

\* The number of the line, whatever the running maximum.
LastGroupId(number, current) == number

\* max(int(d["number"]), max_group_id)
NextMaxGroupId(number, current) == IntMax(number, current)

\* The time of the first test case of the group.
FirstCaseTime(times) == IF Len(times) > 0 THEN times[1] ELSE None

\* The time a group-graded line passes to Verdict.
GroupTime(times) == IF Len(times) > 0 THEN SeqMax(times) ELSE None

\* Lines 302-314.
OnTestgroupGrade(st, line) ==
  IF st.sub = 0 THEN Raise(st, "AssertionError", "Problem.__init__")
  ELSE IF "tc_times" \in st.unbound THEN Raise(st, "UnboundLocalError", "Problem.__init__")
  ELSE
    LET s1 == [st EXCEPT
                 !.heap[st.sub].verdict =
                    OrderedDictSet(@, GroupKey(line),
                                   Verdict(line.grade, GroupTime(st.tc_times))),
                 !.regraded[st.sub] =
                    IF st.sub \notin Range(st.submissions)
                       /\ HasKey(st.heap[st.sub].verdict, GroupKey(line))
                    THEN @ \cup {GroupKey(line)} ELSE @]
        s2 == IF RequiresTestCase(line, st.tc_times)
              THEN [s1 EXCEPT !.log =
                      Append(@, LogEntry("ERROR",
                                         "AC grade for secret group requires at least one test case",
                                         0, st.lineno, 0, "", ""))]
              ELSE s1
    IN IF line.type = "sample" THEN s2
       ELSE IF line.number = None THEN Raise(s2, "TypeError", "Problem.__init__")
       ELSE [s2 EXCEPT !.max_group_id = NextMaxGroupId(line.number, @)]

\* int(d["points"] or "0")
PointsOf(token) == IF token = None THEN 0 ELSE token

\* Lines 315-319.
OnEndSubmission(st, line) ==
  IF st.sub = 0 THEN Raise(st, "AssertionError", "Problem.__init__")
  ELSE [st EXCEPT !.heap[st.sub].points = PointsOf(line.points),
                  !.heap[st.sub].maxtime = line.maxtime,
                  !.submissions = Append(@, st.sub)]

\* A handler that keeps the time limits once they are set.
FirstTimelimitWins(st, line) ==
  IF st.timelimits = <<>> THEN [st EXCEPT !.timelimits = <<line.limit, line.safety>>] ELSE st

\* Lines 320-321.
OnTimelimit(st, line) == [st EXCEPT !.timelimits = <<line.limit, line.safety>>]

\* The line the loop of line 279 takes from the stream, recorded in the
\* history: what the stream has held so far, by the kind of its lines.
Observe(st, line) ==
  LET pattern == _find_matching_pattern(line)
  IN CASE pattern = "START_TESTGROUP" -> [st EXCEPT !.seen = <<>>]
       [] pattern = "AC_TC_RESULT" -> [st EXCEPT !.seen = Append(@, line.time)]
       [] pattern = "TIMELIMIT" -> [st EXCEPT !.declared = <<line.limit, line.safety>>]
       [] OTHER -> st

\* A loop body that drops the current submission and the case times on a
\* line that matches no pattern.
ProcessLineResetsOnNoMatch(st, line, path) ==
  LET s1 == CountLine(Observe(st, line))
      pattern == _find_matching_pattern(line)
  IN CASE pattern = "None" -> [s1 EXCEPT !.sub = 0, !.tc_times = <<>>]
       [] pattern = "FIRST_LINE" -> OnFirstLine(s1, line)
       [] pattern = "START_SUBMISSION" -> OnStartSubmission(s1, line, path)
       [] pattern = "START_TESTGROUP" -> OnStartTestgroup(s1, line)
       [] pattern = "AC_TC_RESULT" -> OnAcTcResult(s1, line)
       [] pattern = "TESTGROUP_GRADE" -> OnTestgroupGrade(s1, line)
       [] pattern = "END_SUBMISSION" -> OnEndSubmission(s1, line)
       [] pattern = "TIMELIMIT" -> OnTimelimit(s1, line)

\* The loop body, lines 280-324, for a line whose source tree (if it
\* starts a submission) is `path`.
ProcessLine(st, line, path) ==
  LET s1 == CountLine(Observe(st, line))
      pattern == _find_matching_pattern(line)
  IN CASE pattern = "None" -> s1
       [] pattern = "FIRST_LINE" -> OnFirstLine(s1, line)
       [] pattern = "START_SUBMISSION" -> OnStartSubmission(s1, line, path)
       [] pattern = "START_TESTGROUP" -> OnStartTestgroup(s1, line)
       [] pattern = "AC_TC_RESULT" -> OnAcTcResult(s1, line)
       [] pattern = "TESTGROUP_GRADE" -> OnTestgroupGrade(s1, line)
       [] pattern = "END_SUBMISSION" -> OnEndSubmission(s1, line)
       [] pattern = "TIMELIMIT" -> OnTimelimit(s1, line)

\* No source tree is read for a line that starts no submission.
NoPath == [file |-> TRUE, grades |-> <<>>]

\* ------------------------------------------------------------- the post-pass
\* list(str(i) for i in range(1, max_group_id + 1))
GroupsUpTo(n) == [i \in 1 .. n |-> i]

\* ["sample"] + self.groups
AllGroups(g) == <<SampleKey>> \o g

\* The comparison of line 329, for the submission object `obj`.
UnexpectedGroupName(obj, allgroups) == Keys(obj.verdict) # allgroups

RECURSIVE PostPassLog(_, _, _)
\* The errors of the loop of lines 328-330, over the list `subs`.
PostPassLog(hp, subs, allgroups) ==
  IF subs = <<>> THEN <<>>
  ELSE (IF UnexpectedGroupName(hp[subs[1]], allgroups)
        THEN <<LogEntry("ERROR", "Unexpected group name", subs[1], 0, 0, "", "")>>
        ELSE <<>>)
       \o PostPassLog(hp, Tail(subs), allgroups)

\* Lines 326-330: the stream has ended, Problem.__init__ returns.
PostPass(st) ==
  [st EXCEPT !.groups = GroupsUpTo(st.max_group_id),
             !.log = @ \o PostPassLog(st.heap, st.submissions,
                                      AllGroups(GroupsUpTo(st.max_group_id))),
             !.pc = "constructed"]

\* ------------------------------------------------------------- main: the sort
\* An order by the points alone.
PointsOnlyLE(a, b) == a.points >= b.points

\* The order of the key (-d.points, d.maxtime): a sorts no later than b.
KeyLE(a, b) ==
  \/ a.points > b.points
  \/ a.points = b.points /\ a.maxtime <= b.maxtime

RECURSIVE InsertSorted(_, _, _)
\* The sorted list acc with x inserted behind every element that sorts no
\* later than x (list.sort is stable).
InsertSorted(hp, acc, x) ==
  IF acc = <<>> THEN <<x>>
  ELSE IF KeyLE(hp[acc[1]], hp[x])
       THEN <<acc[1]>> \o InsertSorted(hp, Tail(acc), x)
       ELSE <<x>> \o acc

RECURSIVE SortPrefix(_, _, _)
\* The first n elements of subs, sorted.
SortPrefix(hp, subs, n) ==
  IF n = 0 THEN <<>> ELSE InsertSorted(hp, SortPrefix(hp, subs, n - 1), subs[n])

\* problem.submissions.sort(key=lambda d: (-d.points, d.maxtime))
SortSubmissions(hp, subs) == SortPrefix(hp, subs, Len(subs))

\* ------------------------------------------------------------- print_table
\* Submission.has_expected_grades(), the method's result as a condition.
has_expected_grades(obj) ==
  obj.expected_total_grade = "AC" \/ Len(obj._expected_grades) > 0

\* The condition of line 351 reads the attribute sub.has_expected_grades
\* and does not call it: a bound method, which is true.
HasExpectedGradesAttr(obj) == TRUE

\* Submission.expected_grade(i) returns (does not raise KeyError).
ExpectedGradeDefined(obj, i) ==
  obj.expected_total_grade = "AC" \/ (1 <= i /\ i <= Len(obj._expected_grades))

\* Submission.expected_grade(i)
expected_grade(obj, i) ==
  IF obj.expected_total_grade = "AC" THEN "AC" ELSE obj._expected_grades[i]

\* The comparison of line 354.
GradeAsExpected(obj, i) == expected_grade(obj, i) = Get(obj.verdict, i).grade

\* Lines 351-358 raise KeyError for this submission: an expected grade or a
\* verdict of some group is missing.
RowRaises(obj, grps) ==
  /\ HasExpectedGradesAttr(obj)
  /\ \E k \in 1 .. Len(grps) :
       ~ExpectedGradeDefined(obj, grps[k]) \/ ~HasKey(obj.verdict, grps[k])

\* The summary column of a row, lines 351-360.
Summary(obj, grps) ==
  IF HasExpectedGradesAttr(obj)
  THEN [k \in 1 .. Len(grps) |-> IF GradeAsExpected(obj, grps[k]) THEN "y" ELSE "n"]
  ELSE [k \in 1 .. Len(grps) |-> "."]

\* What lines 345-349 print of a submission, before the summary.
RowStart(s, obj) ==
  [sub |-> s, verdicts |-> [k \in 1 .. Len(obj.verdict) |-> obj.verdict[k].val],
   points |-> obj.points, maxtime |-> obj.maxtime]

\* The groups appended to warnings[sub] for one row, line 358.
RowWarnings(obj, grps) ==
  IF HasExpectedGradesAttr(obj)
  THEN SelectSeq(grps, LAMBDA i : ~GradeAsExpected(obj, i))
  ELSE <<>>

RECURSIVE Rows(_, _, _)
\* The rows printed for the list subs.
Rows(hp, subs, grps) ==
  IF subs = <<>> THEN <<>>
  ELSE << <<"row", RowStart(subs[1], hp[subs[1]]), Summary(hp[subs[1]], grps)>> >>
       \o Rows(hp, Tail(subs), grps)

RECURSIVE WarningPairs(_, _, _)
\* The pairs <<sub, group>> appended to `warnings`, in the order of the loop.
WarningPairs(hp, subs, grps) ==
  IF subs = <<>> THEN <<>>
  ELSE LET w == RowWarnings(hp[subs[1]], grps)
       IN [k \in 1 .. Len(w) |-> <<subs[1], w[k]>>] \o WarningPairs(hp, Tail(subs), grps)

RECURSIVE FirstOccurrences(_)
\* The keys of the dict `warnings` in insertion order: each submission of
\* the pairs once, at its first occurrence.
FirstOccurrences(pairs) ==
  IF pairs = <<>> THEN <<>>
  ELSE <<pairs[1][1]>>
       \o FirstOccurrences(SelectSeq(Tail(pairs), LAMBDA p : p[1] # pairs[1][1]))

RECURSIVE WarningLog(_, _, _)
\* Lines 364-370: for each key of `warnings`, a warning per group of its list.
WarningLog(hp, order, pairs) ==
  IF order = <<>> THEN <<>>
  ELSE LET mine == SelectSeq(pairs, LAMBDA p : p[1] = order[1])
       IN [k \in 1 .. Len(mine) |->
             LogEntry("WARNING", "Unexpected grade", order[1], mine[k][2], 0,
                      Get(hp[order[1]].verdict, mine[k][2]).grade,
                      expected_grade(hp[order[1]], mine[k][2]))]
          \o WarningLog(hp, Tail(order), pairs)

\* " ".join(all_grades[1:]): the grades of all verdicts but the first.
SuggestedGrades(obj) ==
  IF Len(obj.verdict) = 0 THEN <<>>
  ELSE [k \in 1 .. (Len(obj.verdict) - 1) |-> obj.verdict[k + 1].val.grade]

RECURSIVE SuggestionLog(_, _)
\* Lines 359-362 and 371-375: a suggestion per row without expectation.
SuggestionLog(hp, subs) ==
  IF subs = <<>> THEN <<>>
  ELSE (IF HasExpectedGradesAttr(hp[subs[1]]) THEN <<>>
        ELSE <<[level |-> "INFO", msg |-> "No hint found", sub |-> subs[1], i |-> 0, j |-> 0,
                actual |-> "", expected |-> "", grades |-> SuggestedGrades(hp[subs[1]])]>>)
       \o SuggestionLog(hp, Tail(subs))

\* Problem.print_table.  The rows before the first one that raises are
\* printed in full, of that one the columns before the summary.
PrintTable(st) ==
  LET hp == st.heap
      subs == st.submissions
      grps == st.groups
      bad == {k \in 1 .. Len(subs) : RowRaises(hp[subs[k]], grps)}
      header == << <<"header", grps>> >>
  IN IF bad # {}
     THEN LET f == CHOOSE k \in bad : \A m \in bad : k <= m
          IN Raise([st EXCEPT !.stdout =
                      @ \o header \o Rows(hp, SubSeq(subs, 1, f - 1), grps)
                        \o << <<"partial row", RowStart(subs[f], hp[subs[f]])>> >>],
                   "KeyError", "print_table")
     ELSE LET pairs == WarningPairs(hp, subs, grps)
          IN [st EXCEPT
                !.stdout = @ \o header \o Rows(hp, subs, grps),
                !.log = @ \o WarningLog(hp, FirstOccurrences(pairs), pairs)
                          \o SuggestionLog(hp, subs),
                !.pc = "printed"]

\* main, line 437: reads problem.timelimits.
PrintTimelimits(st) ==
  IF st.timelimits = <<>> THEN Raise(st, "AttributeError", "main")
  ELSE [st EXCEPT !.stdout = Append(@, <<"Time limit", st.timelimits[1], st.timelimits[2]>>),
                  !.pc = "limits"]

\* ------------------------------------------------------------- check_distinguished
\* accepting_subs[i] after the loop of lines 383-386: the submissions of
\* the list, in its order, whose verdict for key i has grade AC.
accepting_subs(hp, subs, i) ==
  SelectSeq(subs, LAMBDA s : HasKey(hp[s].verdict, i) /\ Get(hp[s].verdict, i).grade = "AC")

\* A comparison of how many submissions accept each group.
SameNumberAccepting(hp, subs, i, j) ==
  Len(accepting_subs(hp, subs, i)) = Len(accepting_subs(hp, subs, j))

\* The comparison of line 389.
NotDistinguished(hp, subs, i, j) ==
  accepting_subs(hp, subs, i) = accepting_subs(hp, subs, j)

RECURSIVE Combinations(_)
\* itertools.combinations(g, 2), in its order.
Combinations(g) ==
  IF Len(g) < 2 THEN <<>>
  ELSE [k \in 1 .. (Len(g) - 1) |-> <<g[1], g[k + 1]>>] \o Combinations(Tail(g))

\* all_distinguished after the loop of lines 388-394: line 394 belongs to
\* the loop body, not to the if.
AllDistinguished(hp, subs, grps) == Len(Combinations(grps)) = 0

RECURSIVE DistinguishLog(_, _, _)
\* The warnings of lines 388-393 for the list of pairs.
DistinguishLog(hp, subs, pairs) ==
  IF pairs = <<>> THEN <<>>
  ELSE (IF NotDistinguished(hp, subs, pairs[1][1], pairs[1][2])
        THEN <<LogEntry("WARNING", "No submission distinguishes test groups", 0,
                        pairs[1][1], pairs[1][2], "", "")>>
        ELSE <<>>)
       \o DistinguishLog(hp, subs, Tail(pairs))

\* Problem.check_distinguished
CheckDistinguished(st) ==
  [st EXCEPT
     !.log = @ \o DistinguishLog(st.heap, st.submissions, Combinations(st.groups)),
     !.stdout = IF AllDistinguished(st.heap, st.submissions, st.groups)
                THEN Append(@, <<"OK: All secret test groups distinguished">>)
                ELSE @,
     !.pc = "done"]

\* ------------------------------------------------------------- actions
Init == Holds(Start) /\ grader = NotRunning

\* main, lines 413-417: the problem must be a scoring problem.
CheckProblemType ==
  /\ pc = "start"
  /\ \E problemtype \in {"scoring", "pass-fail"} :
       Becomes(IF problemtype # "scoring"
               THEN [Cur EXCEPT !.log = Append(@, LogEntry("CRITICAL", "not a scoring problem",
                                                           0, 0, 0, "", "")),
                                !.pc = "exit"]
               ELSE [Cur EXCEPT !.pc = "reading"])

\* The loop of line 279 reads one more line.
Reading == pc = "reading" /\ lineno < MaxLines

NoMatch ==
  /\ Reading
  /\ _find_matching_pattern(NoLine) = "None"
  /\ Becomes(ProcessLine(Cur, NoLine, NoPath))

FIRST_LINE(line) ==
  /\ Reading
  /\ _find_matching_pattern(line) = "FIRST_LINE"
  /\ Becomes(ProcessLine(Cur, line, NoPath))

START_SUBMISSION(line, path) ==
  /\ Reading
  /\ Len(heap) < MaxSubs
  /\ _find_matching_pattern(line) = "START_SUBMISSION"
  /\ Becomes(ProcessLine(Cur, line, path))

START_TESTGROUP(line) ==
  /\ Reading
  /\ _find_matching_pattern(line) = "START_TESTGROUP"
  /\ Becomes(ProcessLine(Cur, line, NoPath))

AC_TC_RESULT(line) ==
  /\ Reading
  /\ Len(tc_times) < MaxCases
  /\ _find_matching_pattern(line) = "AC_TC_RESULT"
  /\ Becomes(ProcessLine(Cur, line, NoPath))

TESTGROUP_GRADE(line) ==
  /\ Reading
  /\ _find_matching_pattern(line) = "TESTGROUP_GRADE"
  /\ Becomes(ProcessLine(Cur, line, NoPath))

END_SUBMISSION(line) ==
  /\ Reading
  /\ _find_matching_pattern(line) = "END_SUBMISSION"
  /\ Becomes(ProcessLine(Cur, line, NoPath))

TIMELIMIT(line) ==
  /\ Reading
  /\ _find_matching_pattern(line) = "TIMELIMIT"
  /\ Becomes(ProcessLine(Cur, line, NoPath))

\* The stream ends.
EndOfStream ==
  /\ pc = "reading"
  /\ Becomes(PostPass(Cur))

Sort ==
  /\ pc = "constructed"
  /\ Becomes([Cur EXCEPT !.submissions = SortSubmissions(heap, @), !.pc = "sorted"])

print_table ==
  /\ pc = "sorted"
  /\ Becomes(PrintTable(Cur))

print_timelimits ==
  /\ pc = "printed"
  /\ Becomes(PrintTimelimits(Cur))

check_distinguished ==
  /\ pc = "limits"
  /\ Becomes(CheckDistinguished(Cur))

Next ==
  \/ CheckProblemType
  \/ NoMatch
  \/ \E line \in FirstLines : FIRST_LINE(line)
  \/ \E line \in StartSubmissionLines, path \in Paths : START_SUBMISSION(line, path)
  \/ \E line \in StartTestgroupLines : START_TESTGROUP(line)
  \/ \E line \in AcTcResultLines : AC_TC_RESULT(line)
  \/ \E line \in TestgroupGradeLines : TESTGROUP_GRADE(line)
  \/ \E line \in EndSubmissionLines : END_SUBMISSION(line)
  \/ \E line \in TimelimitLines : TIMELIMIT(line)
  \/ EndOfStream
  \/ Sort
  \/ print_table
  \/ print_timelimits
  \/ check_distinguished

\* main on an arbitrary stream of at most MaxLines lines.
Spec == Init /\ [][Next]_vars

\* ------------------------------------------------------------- whole logs
\* The lines verifyproblem writes for one submission: its start, for the
\* sample group and the first Len(grades) secret groups the group's start,
\* one accepted test case and the group's grade, and the submission's end.
GroupLines(type, number, grade) ==
  << [pats |-> {"START_TESTGROUP"}],
     [pats |-> {"AC_TC_RESULT"}, time |-> 1, case |-> "1.in"],
     [pats |-> {"TESTGROUP_GRADE"}, type |-> type, number |-> number, grade |-> grade] >>

RECURSIVE SecretLines(_, _)
SecretLines(grades, n) ==
  IF n = 0 THEN <<>>
  ELSE SecretLines(grades, n - 1) \o GroupLines("secret/group", n, grades[n])

SubmissionLines(type, grades, end) ==
  << [pats |-> {"START_SUBMISSION"}, type |-> type, name |-> "a.cpp"] >>
  \o GroupLines("sample", None, "AC")
  \o SecretLines(grades, Len(grades))
  \o << end >>

RECURSIVE Run(_, _, _)
\* The loop of line 279 over the lines `lines`, the k-th submission's
\* source tree being paths[k]; an exception or sys.exit ends it.
Run(st, lines, paths) ==
  IF lines = <<>> \/ st.pc # "reading" THEN st
  ELSE IF _find_matching_pattern(lines[1]) = "START_SUBMISSION"
       THEN Run(ProcessLine(st, lines[1], paths[1]), Tail(lines), Tail(paths))
       ELSE Run(ProcessLine(st, lines[1], NoPath), Tail(lines), paths)

\* The submissions of a log: category and source, and the grades of the
\* secret groups it was run on: all of them, or those up to its first WA.
\* Its points are 10 for each group it is accepted on.
ReportSources ==
  { <<"AC", [file |-> TRUE, grades |-> <<>>]>>,
    <<"WA", [file |-> TRUE, grades |-> <<>>]>>,
    <<"WA", [file |-> TRUE, grades |-> <<"AC", "WA">>]>> }
GradeLists ==
  [1 .. MaxGroup -> Grades]
  \cup {[i \in 1 .. n |-> IF i < n THEN "AC" ELSE "WA"] : n \in 0 .. (MaxGroup - 1)}
Scripts == [source : ReportSources, grades : GradeLists]
ReportEnd(grades) ==
  [pats |-> {"END_SUBMISSION"},
   points |-> 10 * Cardinality({i \in 1 .. Len(grades) : grades[i] = "AC"}),
   maxtime |-> 1]

RECURSIVE LogLines(_)
LogLines(scripts) ==
  IF scripts = <<>> THEN <<>>
  ELSE SubmissionLines(scripts[1].source[1], scripts[1].grades, ReportEnd(scripts[1].grades))
       \o LogLines(Tail(scripts))

\* Problem(problempath, inputstream) for the log of the submissions
\* `scripts`, which loads the problem and declares the time limits first.
Constructed(scripts) ==
  PostPass(Run([Start EXCEPT !.pc = "reading"],
               << [pats |-> {"FIRST_LINE"}, problemname |-> Stem],
                  [pats |-> {"TIMELIMIT"}, limit |-> 1, safety |-> 2] >>
               \o LogLines(scripts),
               [k \in 1 .. Len(scripts) |-> scripts[k].source[2]]))

InitReport ==
  \E n \in 1 .. MaxReportSubs :
    \E scripts \in [1 .. n -> Scripts] :
      Holds(Constructed(scripts)) /\ grader = NotRunning

NextReport ==
  \/ Sort
  \/ print_table
  \/ print_timelimits
  \/ check_distinguished

\* main from the return of Problem.__init__ on, for the logs of up to
\* MaxReportSubs submissions that verifyproblem writes.
SpecReport == InitReport /\ [][NextReport]_vars

\* ------------------------------------------------------------- test groups
\* The lines before the test groups of the first submission: the problem
\* is loaded and a submission of category `type` is started.
GroupPrefix(type) ==
  << [pats |-> {"FIRST_LINE"}, problemname |-> Stem],
     [pats |-> {"START_SUBMISSION"}, type |-> type, name |-> "a.cpp"] >>

\* Problem.__init__ has read the lines of GroupPrefix.
InitGroups ==
  \E type \in {"AC", "WA"} :
    /\ Holds(Run([Start EXCEPT !.pc = "reading"], GroupPrefix(type), <<NoPath>>))
    /\ grader = NotRunning

\* The loop of line 279 reads one more of the lines that follow the prefix.
ReadingGroups == pc = "reading" /\ lineno < Len(GroupPrefix("AC")) + MaxGroupLines

TestgroupStarted(line) ==
  /\ ReadingGroups
  /\ _find_matching_pattern(line) = "START_TESTGROUP"
  /\ Becomes(ProcessLine(Cur, line, NoPath))

CaseAccepted(line) ==
  /\ ReadingGroups
  /\ Len(tc_times) < MaxCases
  /\ _find_matching_pattern(line) = "AC_TC_RESULT"
  /\ Becomes(ProcessLine(Cur, line, NoPath))

GroupGraded(line) ==
  /\ ReadingGroups
  /\ _find_matching_pattern(line) = "TESTGROUP_GRADE"
  /\ Becomes(ProcessLine(Cur, line, NoPath))

NextGroups ==
  \/ \E line \in StartTestgroupLines : TestgroupStarted(line)
  \/ \E line \in AcTcResultLines : CaseAccepted(line)
  \/ \E line \in TestgroupGradeLines : GroupGraded(line)

\* The loop of Problem.__init__ over the test groups of a started
\* submission: at most MaxGroupLines lines that start a test group, report
\* an accepted test case or grade a group, in any order.
SpecGroups == InitGroups /\ [][NextGroups]_vars

\* ------------------------------------------------------------- grader.py
\* The lines of stdin, one per test case: a verdict and a score.
GraderVerdicts == {"AC", "WA", "TLE"}
GraderLines ==
  {<<"AC", 4>>, <<"AC", 1000>>, <<"AC", 2000>>, <<"WA", 1000>>, <<"TLE", 0>>}

\* GROUP_SCORES, as generate_grader.py prints it from the file `groups`.
GroupScoreLists == {<<2>>, <<1, 2>>, <<2, 1>>}

\* The lists of distinct case numbers 0 .. n - 1 a group of GROUP_CASES
\* may hold, in any order (generate_grader.py, lines 28-33).
CaseLists(n) ==
  {c \in UNION {[1 .. k -> 0 .. (n - 1)] : k \in 0 .. n} :
     \A a, b \in 1 .. Len(c) : c[a] = c[b] => a = b}

\* first_error = None
NoError == "None"

\* The float of a score line: the score of an AC line, 0.0 of any other.
CaseScore(line) == IF line[1] = "AC" THEN line[2] ELSE 0

\* min(a, b)
IntMin(a, b) == IF a <= b THEN a ELSE b

RECURSIVE rel_score(_, _, _)
\* rel_score after the loop of lines 18-21 over the list `cases`, from the
\* value `rel`.
rel_score(rel, scores, cases) ==
  IF cases = <<>> THEN rel
  ELSE rel_score(IntMin(rel, scores[cases[1] + 1]), scores, Tail(cases))

RECURSIVE first_error(_, _, _)
\* first_error after the loop of lines 18-21 over the list `cases`, from
\* the value `err`.
first_error(err, verdicts, cases) ==
  IF cases = <<>> THEN err
  ELSE first_error(IF verdicts[cases[1] + 1] # "AC" /\ err = NoError
                   THEN verdicts[cases[1] + 1] ELSE err,
                   verdicts, Tail(cases))

\* A rounding towards zero.
TruncateCenti(total) == total \div 10

\* round(total_score * 100.0), for a total that is not negative: the
\* nearest number of hundredths, a half rounded up.
RoundCenti(total) == (total + 5) \div 10

\* grader.py is started with the argument "groups".
InitGrader ==
  /\ Holds(Start)
  /\ \E n \in 0 .. MaxGraderCases :
       \E lines \in [1 .. n -> GraderLines], gs \in GroupScoreLists :
         \E gc \in [1 .. Len(gs) -> CaseLists(n)] :
           grader = [pc |-> "read", stdin |-> lines, GROUP_SCORES |-> gs, GROUP_CASES |-> gc,
                     verdicts |-> <<>>, scores |-> <<>>, total_score |-> 0,
                     first_error |-> NoError, group |-> 0, out |-> <<>>]

\* The analyzer's variables.
analyzer ==
  << pc, exc, unbound, lineno, problemname, sub, tc_times, max_group_id,
     heap, regraded, seen, declared, submissions, timelimits, groups, log, stdout >>

\* Lines 7-14: all of stdin is read.
ReadVerdicts ==
  /\ grader.pc = "read"
  /\ grader' = [grader EXCEPT
                  !.verdicts = [k \in 1 .. Len(grader.stdin) |-> grader.stdin[k][1]],
                  !.scores = [k \in 1 .. Len(grader.stdin) |-> CaseScore(grader.stdin[k])],
                  !.pc = "groups"]
  /\ UNCHANGED analyzer

\* Lines 15-22: one iteration of the loop over the groups.
GradeGroup ==
  /\ grader.pc = "groups"
  /\ grader.group < Len(grader.GROUP_SCORES)
  /\ LET group_score == grader.GROUP_SCORES[grader.group + 1]
         cases == grader.GROUP_CASES[grader.group + 1]
     IN grader' = [grader EXCEPT
                     !.total_score = @ + group_score * rel_score(1000, grader.scores, cases),
                     !.first_error = first_error(@, grader.verdicts, cases),
                     !.group = @ + 1]
  /\ UNCHANGED analyzer

\* Lines 23-27: the total is rounded and the result printed.
PrintResult ==
  /\ grader.pc = "groups"
  /\ grader.group = Len(grader.GROUP_SCORES)
  /\ LET total == RoundCenti(grader.total_score)
     IN grader' = [grader EXCEPT
                     !.out = IF total = 0 /\ grader.first_error # NoError
                             THEN <<grader.first_error, 0>>
                             ELSE <<"AC", total>>,
                     !.pc = "done"]
  /\ UNCHANGED analyzer

NextGrader ==
  \/ ReadVerdicts
  \/ GradeGroup
  \/ PrintResult

\* grader.py in 'groups' mode, on the verdicts of at most MaxGraderCases
\* test cases.
SpecGrader == InitGrader /\ [][NextGrader]_vars

\* ------------------------------------------------------------- properties
\* Problem.__init__ has returned.
Returned ==
  \/ pc \in {"constructed", "sorted", "printed", "limits", "done"}
  \/ pc = "crashed" /\ exc[2] \in {"print_table", "main"}

Committed == Range(submissions)

\* The number of entries of the log that satisfy P.
CountLog(P(_)) == Cardinality({k \in 1 .. Len(log) : P(log[k])})

\* The 'Unexpected group name' errors logged for submission s.
UnexpectedErrors(s) ==
  CountLog(LAMBDA e : e.msg = "Unexpected group name" /\ e.sub = s)

\* The key sequence of submission s is not ["sample"] + groups.
Deviates(s) == Keys(heap[s].verdict) # <<SampleKey>> \o [i \in 1 .. Len(groups) |-> i]

\* C1: once the stream is processed, for every committed submission
\* exactly one 'Unexpected group name' error is logged if its verdict keys
\* differ from ["sample", "1", ..., "N"], and none if they are equal.
C1_OneErrorPerDeviatingSubmission ==
  Returned =>
    \A s \in Committed : UnexpectedErrors(s) = IF Deviates(s) THEN 1 ELSE 0

\* C2: Problem.__init__ never aborts with an exception, whatever the order
\* of the recognized lines (problem-identity mismatches end in sys.exit).
C2_InitNeverRaises == ~(pc = "crashed" /\ exc[2] = "Problem.__init__")

\* C3: no step changes the verdict mapping, the points or the maxtime of a
\* submission that is already committed.
C3_CommittedImmutable ==
  [][\A s \in Committed :
       /\ heap'[s].verdict = heap[s].verdict
       /\ heap'[s].points = heap[s].points
       /\ heap'[s].maxtime = heap[s].maxtime]_vars

\* C4 as claimed: once the stream is processed, an 'Unexpected group name'
\* error is logged for every committed submission for which some group key
\* was graded more than once before it was committed.
C4_DuplicateDetected ==
  Returned =>
    \A s \in Committed : regraded[s] # {} => UnexpectedErrors(s) >= 1

\* C4 as amended: a committed submission for which some group key was
\* graded more than once before it was committed holds one verdict per key
\* (the duplicate replaced the earlier verdict), and an 'Unexpected group
\* name' error is logged for it if and only if its key sequence differs from
\* ["sample"] + groups.
C4_DuplicateReplaces ==
  Returned =>
    \A s \in Committed :
      regraded[s] # {} =>
        /\ \A a, b \in 1 .. Len(heap[s].verdict) :
             heap[s].verdict[a].key = heap[s].verdict[b].key => a = b
        /\ UnexpectedErrors(s) >= 1 <=> Deviates(s)

\* A submission with a key graded twice is committed with the keys
\* ["sample"] + groups, and no error is logged for it.
C4_Witness ==
  /\ Returned
  /\ \E s \in Committed :
       regraded[s] # {} /\ ~Deviates(s) /\ UnexpectedErrors(s) = 0

\* C5: when the key sequence of some committed submission deviates from
\* ["sample"] + groups, print_table still runs to completion.
C5_ReportCompletesDespiteAnomaly ==
  (\E s \in Committed : Returned /\ Deviates(s))
    => ~(pc = "crashed" /\ exc[2] = "print_table")

\* The greatest secret-group number any group-graded line of the stream
\* stored a verdict under, in any Submission object, committed or not (0 if
\* there is none).
MaxGraded ==
  LET nums == {0} \cup UNION {Range(Keys(heap[s].verdict)) : s \in 1 .. Len(heap)}
  IN CHOOSE n \in nums : \A m \in nums : m <= n

\* C6: once the stream is processed, Problem.groups is ["1", ..., "N"] for
\* the greatest secret-group number N of any group-graded line of the
\* stream, whichever submission the line belongs to.
C6_GroupsUpToMaxGraded ==
  Returned => groups = [i \in 1 .. MaxGraded |-> i]

\* A committed submission has fewer verdicts than there are groups, the
\* greatest group having been graded for another submission.
C6_Witness ==
  /\ Returned
  /\ Len(groups) = MaxGroup
  /\ \E s \in Committed : Len(heap[s].verdict) < Len(groups)
  /\ \E s \in 1 .. Len(heap) : s \notin Committed /\ HasKey(heap[s].verdict, MaxGroup)

\* The error of lines 309-313 for the line with number n.
TestCaseError(n) ==
  LogEntry("ERROR", "AC grade for secret group requires at least one test case",
           0, n, 0, "", "")

\* What every step that handles a group-graded line for the current
\* submission leaves as it is, besides counting the line.
KeepsLoopState ==
  /\ pc = "reading"
  /\ sub # 0
  /\ "tc_times" \notin unbound
  /\ lineno' = lineno + 1
  /\ sub' = sub
  /\ tc_times' = tc_times
  /\ submissions' = submissions
  /\ timelimits' = timelimits
  /\ Len(heap') = Len(heap)

\* C7: a group-graded line for a numbered secret group with grade AC,
\* handled while a submission is current and the case times are empty, logs
\* exactly one error, leaves the loop running and stores a Verdict with
\* grade AC and time None; a group-graded line for the sample group, with
\* another grade or with case times accumulated logs nothing.
C7_ErrorForACWithoutCase ==
  [][KeepsLoopState =>
       \A line \in TestgroupGradeLines :
         (/\ line.type = "sample" \/ line.number # None
          /\ TESTGROUP_GRADE(line))
         => IF line.type # "sample" /\ line.grade = "AC" /\ tc_times = <<>>
            THEN /\ log' = Append(log, TestCaseError(lineno'))
                 /\ pc' = "reading"
                 /\ Get(heap'[sub].verdict, line.number) = [grade |-> "AC", time |-> None]
            ELSE log' = log]_vars

\* The line just handled was logged as an AC grade without test case, the
\* loop is running, and the current submission holds an AC verdict without
\* time for a secret group.
C7_Witness ==
  /\ pc = "reading"
  /\ sub # 0
  /\ log # <<>>
  /\ log[Len(log)] = TestCaseError(lineno)
  /\ \E k \in 1 .. Len(heap[sub].verdict) :
       /\ heap[sub].verdict[k].key >= 1
       /\ heap[sub].verdict[k].val = [grade |-> "AC", time |-> None]

\* C8: every Verdict stored in any submission, current or committed, has a
\* time only if its grade is AC.
C8_TimeOnlyForAC ==
  \A s \in 1 .. Len(heap) :
    \A k \in 1 .. Len(heap[s].verdict) :
      heap[s].verdict[k].val.time # None => heap[s].verdict[k].val.grade = "AC"

\* The current submission holds a verdict with another grade than AC, and
\* without time, while case times are accumulated.
C8_Witness ==
  /\ sub # 0
  /\ tc_times # <<>>
  /\ \E k \in 1 .. Len(heap[sub].verdict) :
       heap[sub].verdict[k].val = [grade |-> "WA", time |-> None]

\* The committed submissions with grade AC on group i.
AcceptingSet(i) ==
  {s \in Committed : \E k \in 1 .. Len(heap[s].verdict) :
     heap[s].verdict[k].key = i /\ heap[s].verdict[k].val.grade = "AC"}

\* The 'No submission distinguishes' warnings logged for groups i and j.
DistinguishWarnings(i, j) ==
  CountLog(LAMBDA e : e.msg = "No submission distinguishes test groups"
                      /\ e.i = i /\ e.j = j)

\* C9: after check_distinguished, exactly one warning is logged for each
\* pair of secret groups i < j whose sets of accepting committed
\* submissions are equal, and none for any other pair.
C9_WarningIffSameAccepting ==
  pc = "done" =>
    /\ \A i, j \in 1 .. Len(groups) :
         i < j => DistinguishWarnings(i, j) =
                    IF AcceptingSet(i) = AcceptingSet(j) THEN 1 ELSE 0
    /\ \A k \in 1 .. Len(log) :
         log[k].msg = "No submission distinguishes test groups"
           => log[k].i < log[k].j /\ log[k].i >= 1 /\ log[k].j <= Len(groups)

\* Two submissions are committed, two groups accepted by the same non-empty
\* set of them have their warning, and check_distinguished has returned.
C9_Witness ==
  /\ pc = "done"
  /\ Cardinality(Committed) >= 2
  /\ \E i, j \in 1 .. Len(groups) :
       /\ i < j
       /\ AcceptingSet(i) = AcceptingSet(j)
       /\ AcceptingSet(i) # {}
       /\ DistinguishWarnings(i, j) = 1

\* The pairs of secret groups flagged by a warning.
Flagged ==
  CountLog(LAMBDA e : e.msg = "No submission distinguishes test groups")

\* The confirmations printed.
Confirmations ==
  Cardinality({k \in 1 .. Len(stdout) :
                 stdout[k][1] = "OK: All secret test groups distinguished"})

\* C10: after check_distinguished, the confirmation 'All secret test groups
\* distinguished' is printed exactly once if no pair of groups was flagged,
\* and not at all if some pair was.
C10_ConfirmationIffNoneFlagged ==
  pc = "done" => Confirmations = IF Flagged = 0 THEN 1 ELSE 0

\* print_table was called and has ended, by returning or by raising.
TableEnded ==
  \/ pc \in {"printed", "limits", "done"}
  \/ pc = "crashed" /\ exc[2] \in {"print_table", "main"}

\* Submission s has no expectation: it is not filed under AC and no
\* annotation was found for it.
NoExpectation(s) ==
  heap[s].expected_total_grade # "AC" /\ heap[s]._expected_grades = <<>>

\* The grades of the secret groups of submission s, in the order stored.
SecretGrades(s) ==
  LET secret == SelectSeq(heap[s].verdict, LAMBDA e : e.key >= 1)
  IN [k \in 1 .. Len(secret) |-> secret[k].val.grade]

\* The positions of the rows of the table printed in full for submission s.
RowsOf(s) ==
  {k \in 1 .. Len(stdout) : stdout[k][1] = "row" /\ stdout[k][2].sub = s}

\* The 'Unexpected grade' warnings logged for submission s.
GradeWarnings(s) ==
  CountLog(LAMBDA e : e.msg = "Unexpected grade" /\ e.sub = s)

\* C11: once print_table has ended, every committed submission without
\* any expectation has a row whose summary is '.' for every secret group,
\* no 'Unexpected grade' warning, and exactly one 'No hint found'
\* suggestion, which lists its secret-group grades in group order.
C11_NeutralRowAndSuggestion ==
  TableEnded =>
    \A s \in Committed :
      NoExpectation(s) =>
        /\ RowsOf(s) # {}
        /\ \A k \in RowsOf(s) : stdout[k][3] = [i \in 1 .. Len(groups) |-> "."]
        /\ GradeWarnings(s) = 0
        /\ CountLog(LAMBDA e : e.msg = "No hint found" /\ e.sub = s) = 1
        /\ \A k \in 1 .. Len(log) :
             log[k].msg = "No hint found" /\ log[k].sub = s
               => log[k].grades = SecretGrades(s)

\* Submission s has an effective expectation: it is filed under AC or an
\* annotation was found for it.
HasExpectation(s) ==
  heap[s].expected_total_grade = "AC" \/ heap[s]._expected_grades # <<>>

\* The expected grade of submission s for secret group i is declared.
ExpectationFor(s, i) ==
  heap[s].expected_total_grade = "AC" \/ i <= Len(heap[s]._expected_grades)

\* The effective expected grade of submission s for secret group i.
Expected(s, i) ==
  IF heap[s].expected_total_grade = "AC" THEN "AC" ELSE heap[s]._expected_grades[i]

\* C12: once print_table has ended, for every committed submission with an
\* effective expectation and every secret group i it has an expected grade
\* and a verdict for: exactly one 'Unexpected grade' warning naming the
\* submission, the group, the actual and the expected grade is logged if the
\* two grades differ and none if they are equal, and the submission's row
\* shows 'y' for the group exactly if they are equal.
C12_WarningIffMismatch ==
  TableEnded =>
    \A s \in Committed :
      HasExpectation(s) =>
        \A i \in 1 .. Len(groups) :
          ExpectationFor(s, i) /\ HasKey(heap[s].verdict, i) =>
            LET actual == Get(heap[s].verdict, i).grade
                n == IF actual # Expected(s, i) THEN 1 ELSE 0
            IN /\ CountLog(LAMBDA e : e.msg = "Unexpected grade" /\ e.sub = s /\ e.i = i) = n
               /\ CountLog(LAMBDA e : e = LogEntry("WARNING", "Unexpected grade", s, i, 0,
                                                   actual, Expected(s, i))) = n
               /\ RowsOf(s) # {}
               /\ \A k \in RowsOf(s) :
                    stdout[k][3][i] = IF actual = Expected(s, i) THEN "y" ELSE "n"

\* The source tree at `path` holds an annotation line: the file does, or
\* some file of the directory does.
Annotated(path) ==
  IF path.file THEN path.grades # <<>>
  ELSE \E k \in 1 .. Len(path.children) : path.children[k].grades # <<>>

\* C13: a submission-started line for a submission filed under AC gives a
\* submission whose expected grade is AC for every secret group, and logs
\* exactly one 'AC submission contains EXPECTED_GRADES' warning if the
\* submission's source tree holds an annotation and nothing if it holds
\* none.
C13_ACForcedAndAnnotationWarned ==
  [][\A line \in StartSubmissionLines, path \in Paths :
       line.type = "AC" /\ START_SUBMISSION(line, path) =>
         /\ \A i \in 1 .. MaxGroup : expected_grade(heap'[sub'], i) = "AC"
         /\ log' = IF Annotated(path)
                   THEN Append(log, LogEntry("WARNING", "AC submission contains EXPECTED_GRADES",
                                             sub', 0, 0, "", ""))
                   ELSE log]_vars

\* How often reference s occurs in the list subs.
Occurrences(subs, s) == Cardinality({k \in 1 .. Len(subs) : subs[k] = s})

\* C14: the sort of main leaves the committed submissions ordered by
\* descending points, those with equal points by ascending maxtime, and
\* the sorted list is a permutation of the list before the sort.
C14_SortedByPointsThenTime ==
  [][pc = "constructed" =>
       /\ pc' = "sorted"
       /\ \A k \in 1 .. (Len(submissions') - 1) :
            LET a == heap'[submissions'[k]]
                b == heap'[submissions'[k + 1]]
            IN \/ a.points > b.points
               \/ a.points = b.points /\ a.maxtime <= b.maxtime
       /\ \A s \in 1 .. Len(heap) :
            Occurrences(submissions', s) = Occurrences(submissions, s)]_vars

\* The list is sorted, and two submissions with equal points stand in the
\* order of their maxtime, the one committed later first.
C14_Witness ==
  /\ pc = "sorted"
  /\ \E k \in 1 .. (Len(submissions) - 1) :
       /\ submissions[k] > submissions[k + 1]
       /\ heap[submissions[k]].points = heap[submissions[k + 1]].points
       /\ heap[submissions[k]].maxtime < heap[submissions[k + 1]].maxtime

\* C15: a submission-ended line that is handled leaves no current
\* submission, and from then on only a submission-started line (which
\* creates a Submission) sets one.
C15_EndClearsCurrent ==
  [][/\ \A line \in EndSubmissionLines :
          END_SUBMISSION(line) /\ pc' = "reading" => sub' = 0
     /\ (sub = 0 /\ sub' # 0) => Len(heap') = Len(heap) + 1]_vars

\* C16: a group-graded line that is handled leaves the case-time
\* accumulator empty.
C16_GradeClearsCaseTimes ==
  [][\A line \in TestgroupGradeLines :
       TESTGROUP_GRADE(line) /\ pc' = "reading" => tc_times' = <<>>]_vars

\* C20: the committed collection holds no Submission object twice, and no
\* more entries than Submission objects were created by submission-started
\* lines.
C20_CommittedAtMostOnce ==
  /\ \A s \in 1 .. Len(heap) : Occurrences(submissions, s) <= 1
  /\ Len(submissions) <= Len(heap)

\* The greatest of the case times read since the last test-group-started
\* line, None if there is none.
MaxSeen ==
  IF seen = <<>> THEN None
  ELSE CHOOSE m \in Range(seen) : \A t \in Range(seen) : t <= m

\* C17: a group-graded line with grade AC that is handled stores a Verdict
\* whose time is the greatest time of the accepted-case-result lines read
\* since the most recent test-group-started line, None if there was none;
\* a test-group-started line empties the accumulator.
C17_TimeIsMaxSinceGroupStart ==
  [][/\ \A line \in TestgroupGradeLines :
          (line.grade = "AC" /\ GroupGraded(line) /\ pc' = "reading")
            => Get(heap'[sub'].verdict, GroupKey(line)) = [grade |-> "AC", time |-> MaxSeen]
     /\ \A line \in StartTestgroupLines :
          TestgroupStarted(line) => tc_times' = <<>>]_vars

\* Two case times were read since the test group started, the smaller one
\* first, and the current submission holds an AC verdict with the greater.
C17_Witness ==
  /\ pc = "reading"
  /\ Len(seen) = 2
  /\ seen[1] < seen[2]
  /\ \E k \in 1 .. Len(heap[sub].verdict) :
       heap[sub].verdict[k].val = [grade |-> "AC", time |-> seen[2]]

\* C18: a line that matches no pattern changes nothing but the line
\* count: the current submission, every Submission object and its
\* verdicts, the case times, the running maximum group number, the
\* committed collection and the time limits stay as they are, nothing is
\* logged, and the loop goes on.
C18_UnmatchedLineIgnored ==
  [][NoMatch =>
       /\ sub' = sub
       /\ heap' = heap
       /\ tc_times' = tc_times
       /\ unbound' = unbound
       /\ max_group_id' = max_group_id
       /\ submissions' = submissions
       /\ timelimits' = timelimits
       /\ log' = log
       /\ stdout' = stdout
       /\ pc' = "reading"]_vars

\* Three lines were read: one started a submission, one ended it, and one
\* matched no pattern (nothing else leaves the state like this).
C18_Witness ==
  /\ pc = "reading"
  /\ lineno = 3
  /\ Len(heap) = 1
  /\ submissions = <<1>>
  /\ unbound = {"problemname", "tc_times"}
  /\ timelimits = <<>>

\* C19: Problem.timelimits is the (nominal, safety) pair of the last
\* time-limits-declared line read so far, wherever in the stream it stood,
\* and unset if there was none; so it is when the stream is exhausted.
C19_LastTimelimitWins == timelimits = declared

\* The stream is exhausted after three lines: one started a submission,
\* one ended it and one declared the time limits, before, inside or after
\* the submission.
C19_Witness ==
  /\ pc = "constructed"
  /\ lineno = 3
  /\ Len(heap) = 1
  /\ submissions = <<1>>
  /\ timelimits = <<2, 4>>

\* The score case c (numbered from 0) counts with: its score if its verdict
\* is AC, 0 otherwise.
Counted(c) == IF grader.stdin[c + 1][1] = "AC" THEN grader.stdin[c + 1][2] ELSE 0

\* What group g contributes: its score times the least of 1 and the
\* counted scores of its cases.
Contribution(g) ==
  LET rels == {1000} \cup {Counted(grader.GROUP_CASES[g][k]) :
                             k \in 1 .. Len(grader.GROUP_CASES[g])}
  IN grader.GROUP_SCORES[g] * (CHOOSE m \in rels : \A r \in rels : m <= r)

RECURSIVE Contributions(_)
\* The sum of the contributions of the first n groups.
Contributions(n) == IF n = 0 THEN 0 ELSE Contributions(n - 1) + Contribution(n)

\* The positions <<group, index>> of the grouped cases that are not AC.
NonAC ==
  {p \in (1 .. Len(grader.GROUP_CASES)) \X (1 .. MaxGraderCases) :
     /\ p[2] <= Len(grader.GROUP_CASES[p[1]])
     /\ grader.stdin[grader.GROUP_CASES[p[1]][p[2]] + 1][1] # "AC"}

\* The verdict of the first of them in group-then-case order.
FirstNonAC ==
  LET p == CHOOSE p \in NonAC :
             \A q \in NonAC : p[1] < q[1] \/ (p[1] = q[1] /\ p[2] <= q[2])
  IN grader.stdin[grader.GROUP_CASES[p[1]][p[2]] + 1][1]

\* The total in hundredths, the nearest to the sum of the contributions.
RoundedTotal ==
  CHOOSE t \in 0 .. (Contributions(Len(grader.GROUP_SCORES)) \div 10 + 1) :
    LET d == 10 * t - Contributions(Len(grader.GROUP_SCORES))
    IN -5 < d /\ d <= 5

\* C21: in 'groups' mode the total of grader.py grows by each group's
\* score times the least of 1 and its cases' scores, a case that is not AC
\* counting 0, so that a group with such a case adds nothing; the output is
\* the first non-AC verdict in group-then-case order with 0 if the rounded
\* total is 0 and some grouped case is not AC, and AC with the rounded
\* total otherwise.
C21_GroupsModeResult ==
  /\ grader.pc = "groups" =>
       /\ grader.total_score = Contributions(grader.group)
       /\ \A p \in NonAC : Contribution(p[1]) = 0
  /\ grader.pc = "done" =>
       grader.out = IF RoundedTotal = 0 /\ NonAC # {}
                    THEN <<FirstNonAC, 0>>
                    ELSE <<"AC", RoundedTotal>>

\* The total is positive and rounds to 0, a grouped case is not AC, and
\* the grader has printed that case's verdict with 0.
C21_Witness ==
  /\ grader.pc = "done"
  /\ grader.total_score > 0
  /\ NonAC # {}
  /\ grader.out = <<FirstNonAC, 0>>
====
